---- MODULE Spec2Model ----
(***************************************************************************)
(* State-machine model of the etcd backend of rdns-server                  *)
(* (package etcd, BackendOperator).                                         *)
(*                                                                         *)
(* A Go string is a sequence of one-character strings, so that Split,      *)
(* Join, Replace and Contains are computed character by character.  The    *)
(* etcd v2 key space is a tree of nodes addressed by the cleaned key (the  *)
(* sequence of its path segments).  Every call of the etcd client          *)
(* (kapi.Get / kapi.Set / kapi.Delete) is one atomic round trip; a handler *)
(* is the sequence of its round trips.                                     *)
(***************************************************************************)
EXTENDS Integers, Sequences, FiniteSets, TLC

VARIABLES store, now, faults, pr

vars == <<store, now, faults, pr>>

(***************************************************************************)
(* Bounds of the model.                                                    *)
(***************************************************************************)
\* number of clock ticks the model follows
MaxTime == 2
\* the TTL e.duration (DefaultTTL = "240h"), in clock ticks
TTLTicks == 2
\* number of store round trips that may fail with a transport error
MaxFaults == 1
\* slug attempts of a Create where two clients interleave (SpecCreate), in
\* place of maxSlugHashTimes
RaceTries == 2

(***************************************************************************)
(* Program constants.                                                      *)
(***************************************************************************)
maxSlugHashTimes == 100

Em == << >>

ValueHostKey == "host"
ValueTextKey == "text"

\* "/token_origin"
tokenOriginPathConst == <<"/","t","o","k","e","n","_","o","r","i","g","i","n">>
\* "_acme-challenge"
AcmeLabel == <<"_","a","c","m","e","-","c","h","a","l","l","e","n","g","e">>
\* "_txt"
TxtLabel == <<"_","t","x","t">>
\* the configuration given to NewEtcdBackend: --etcd-prepath and --root-domain
prePath == <<"/","r","d","n","s">>
rootDomain == <<"l","b">>

(***************************************************************************)
(* Go's strings package, on sequences of characters.                       *)
(***************************************************************************)
\* the characters of the model in byte order (the order etcd sorts keys by)
CharOrder == <<"-", ".", "/", "0", "1", "2", "3", "_", "a", "b", "c", "d", "e",
               "g", "h", "i", "k", "l", "m", "n", "o", "r", "s", "t", "x">>

Rank(c) == CHOOSE i \in 1..Len(CharOrder) : CharOrder[i] = c

RECURSIVE SplitAcc(_, _, _)
SplitAcc(s, sep, cur) ==
    IF s = Em THEN <<cur>>
    ELSE IF Head(s) = sep THEN <<cur>> \o SplitAcc(Tail(s), sep, Em)
    ELSE SplitAcc(Tail(s), sep, Append(cur, Head(s)))

\* strings.Split(s, sep) for a one-character separator
Split(s, sep) == SplitAcc(s, sep, Em)

RECURSIVE Join(_, _)
\* strings.Join(ss, sep)
Join(ss, sep) ==
    IF ss = Em THEN Em
    ELSE IF Len(ss) = 1 THEN ss[1]
    ELSE ss[1] \o <<sep>> \o Join(Tail(ss), sep)

\* strings.Replace(s, old, new, -1) for one-character old and new
ReplaceAll(s, old, new) == [i \in 1..Len(s) |-> IF s[i] = old THEN new ELSE s[i]]

\* strings.Contains(s, sub)
Contains(s, sub) ==
    \E i \in 0..(Len(s) - Len(sub)) : SubSeq(s, i + 1, i + Len(sub)) = sub

Reverse(ss) == [i \in 1..Len(ss) |-> ss[Len(ss) + 1 - i]]

RECURSIVE DropEmpty(_)
DropEmpty(ss) ==
    IF ss = Em THEN Em
    ELSE IF Head(ss) = Em THEN DropEmpty(Tail(ss))
    ELSE <<Head(ss)>> \o DropEmpty(Tail(ss))

\* the node a key string names in the store: path.Clean, then the segments
KeyOf(str) == DropEmpty(Split(str, "/"))

\* the key string of a node (Node.Key in a response)
KeyStr(key) == IF key = Em THEN <<"/">> ELSE <<"/">> \o Join(key, "/")

\* byte-wise comparison of two strings
RECURSIVE StrLess(_, _)
StrLess(a, b) ==
    IF b = Em THEN FALSE
    ELSE IF a = Em THEN TRUE
    ELSE IF Head(a) = Head(b) THEN StrLess(Tail(a), Tail(b))
    ELSE Rank(Head(a)) < Rank(Head(b))

(***************************************************************************)
(* Path encoder and value formats of the backend.                          *)
(***************************************************************************)
\* zhibo.test.rancher.local => /local/rancher/test/zhibo
convertToPath(domain) == <<"/">> \o Join(Reverse(Split(domain, ".")), "/")

\* 1.1.1.1 => 1_1_1_1
formatKey(key) == ReplaceAll(key, ".", "_")

path(domainName) == prePath \o convertToPath(domainName)

tokenOriginPath(domainName) == tokenOriginPathConst \o <<"/">> \o formatKey(domainName)

\* A stored value is <<fmt, s>>: <<"raw", s>> is the string s itself and
\* <<k, s>> for another k is the JSON text {"k":"s"}.
Raw(s) == <<"raw", s>>
EmptyValue == Raw(Em)

\* 1.1.1.1 => {"host": "1.1.1.1"}
formatValue(value) == <<ValueHostKey, value>>

formatTextValue(value) == <<ValueTextKey, value>>

\* json.Unmarshal into map[string]string: fails on a value that is no JSON object
convertToMapErr(value) == value[1] = "raw"

\* v[ValueHostKey] of the map convertToMap returns (the zero string if absent)
HostOf(value) == IF value[1] = ValueHostKey THEN value[2] ELSE Em

\* the text-record path of CreateText / GetText / UpdateText / DeleteText
textPath(fqdn) ==
    IF Contains(fqdn, AcmeLabel)
    THEN prePath \o <<"/">> \o Join(Split(TxtLabel \o <<".">> \o fqdn, "."), "/")
    ELSE path(fqdn)

\* the key refreshExpiration lists
acmeRoot == prePath \o <<"/">> \o TxtLabel \o <<"/">> \o AcmeLabel

(***************************************************************************)
(* The etcd v2 store: store is a function from the keys of the existing    *)
(* nodes to [dir, value, exp]; exp = 0 is a node without TTL.  The root     *)
(* << >> always exists and is not in the function.                         *)
(***************************************************************************)
IsPrefix(a, b) == Len(a) <= Len(b) /\ SubSeq(b, 1, Len(a)) = a

Exists(st, key) == key = Em \/ key \in DOMAIN st

IsDir(st, key) == key = Em \/ (key \in DOMAIN st /\ st[key].dir)

ProperPrefixes(key) == {SubSeq(key, 1, n) : n \in 1..(Len(key) - 1)}

\* a proper ancestor of key is a file
BlockedByFile(st, key) == \E a \in ProperPrefixes(key) : a \in DOMAIN st /\ ~st[a].dir

Children(st, key) == {c \in DOMAIN st : Len(c) = Len(key) + 1 /\ IsPrefix(key, c)}

Descendants(st, key) == {c \in DOMAIN st : Len(c) > Len(key) /\ IsPrefix(key, c)}

\* claimed is a history mark, no etcd state: a successful Create has returned
\* the name of this registration directory since the directory was made
DirNode(e) == [dir |-> TRUE, value |-> EmptyValue, exp |-> e, claimed |-> FALSE]
FileNode(v, e) == [dir |-> FALSE, value |-> v, exp |-> e, claimed |-> FALSE]

Expiry(ttl, t) == IF ttl THEN t + TTLTicks ELSE 0

\* store.internalGet
GetErr(st, key) ==
    IF BlockedByFile(st, key) THEN "NotDir"
    ELSE IF ~Exists(st, key) THEN "KeyNotFound"
    ELSE "ok"

Put(st, key, node) ==
    [k \in DOMAIN st \cup ProperPrefixes(key) \cup {key} |->
        IF k = key THEN node
        ELSE IF k \in DOMAIN st THEN st[k]
        ELSE DirNode(0)]

\* store.Set (a PUT without prevExist): missing ancestors become directories
\* without TTL, an existing file is replaced, an existing directory refuses
SetErr(st, key) ==
    IF key = Em THEN "RootROnly"
    ELSE IF BlockedByFile(st, key) THEN "NotDir"
    ELSE IF key \in DOMAIN st /\ st[key].dir THEN "NotFile"
    ELSE "ok"

SetStore(st, key, value, dir, ttl, t) ==
    Put(st, key, IF dir THEN DirNode(Expiry(ttl, t)) ELSE FileNode(value, Expiry(ttl, t)))

\* store.Update (a PUT with prevExist=true)
UpdateErr(st, key, value) ==
    IF key = Em THEN "RootROnly"
    ELSE IF GetErr(st, key) # "ok" THEN GetErr(st, key)
    ELSE IF st[key].dir /\ value # EmptyValue THEN "NotFile"
    ELSE "ok"

UpdateStore(st, key, value, ttl, t) ==
    [st EXCEPT ![key] = [dir |-> @.dir,
                         value |-> IF @.dir THEN @.value ELSE value,
                         exp |-> Expiry(ttl, t),
                         claimed |-> @.claimed]]

\* kapi.Set(key, value, opts): opts.PrevExist chooses between the two
KSetErr(st, key, value, prevExist) ==
    IF prevExist THEN UpdateErr(st, key, value) ELSE SetErr(st, key)

KSetStore(st, key, value, dir, ttl, prevExist, t) ==
    IF prevExist THEN UpdateStore(st, key, value, ttl, t)
    ELSE SetStore(st, key, value, dir, ttl, t)

\* store.Delete
DeleteErr(st, key, dir, recursive) ==
    IF key = Em THEN "RootROnly"
    ELSE IF GetErr(st, key) # "ok" THEN GetErr(st, key)
    ELSE IF st[key].dir /\ ~(dir \/ recursive) THEN "NotFile"
    ELSE IF st[key].dir /\ ~recursive /\ Children(st, key) # {} THEN "DirNotEmpty"
    ELSE "ok"

\* a delete that takes the node and leaves what is below it
DeleteNodeOnly(st, key) ==
    [k \in DOMAIN st \ {key} |-> st[k]]

DeleteStore(st, key) ==
    [k \in {c \in DOMAIN st : ~IsPrefix(key, c)} |-> st[k]]

\* the store's TTL expiry at time t: expired nodes go with their subtrees
Expired(st, t) == {k \in DOMAIN st : st[k].exp # 0 /\ st[k].exp <= t}

ExpireStore(st, t) ==
    [k \in {c \in DOMAIN st : ~\E x \in Expired(st, t) : IsPrefix(x, c)} |-> st[k]]

(***************************************************************************)
(* What a response carries.                                                *)
(***************************************************************************)
\* the hosts lookupHosts collects from resp.Node.Nodes (files and directories)
LookupNodes(st, key) == IF IsDir(st, key) THEN Children(st, key) ELSE {}

lookupHostsErr(st, key) == \E c \in LookupNodes(st, key) : convertToMapErr(st[c].value)

lookupHostsOf(st, key) == {HostOf(st[c].value) : c \in LookupNodes(st, key)}

\* the nodes Get projects: resp.Node.Nodes without the directories
GetNodes(st, key) == {c \in LookupNodes(st, key) : ~st[c].dir}

GetHostsErr(st, key) == \E c \in GetNodes(st, key) : convertToMapErr(st[c].value)

GetHostsOf(st, key) == {HostOf(st[c].value) : c \in GetNodes(st, key)}

NodeExp(st, key) == IF key = Em THEN 0 ELSE st[key].exp

NodeValue(st, key) == IF key = Em THEN EmptyValue ELSE st[key].value

\* keys of a segment-wise comparison, as etcd's sorted recursive listing gives them
RECURSIVE KeyLess(_, _)
KeyLess(a, b) ==
    IF b = Em THEN FALSE
    ELSE IF a = Em THEN TRUE
    ELSE IF Head(a) = Head(b) THEN KeyLess(Tail(a), Tail(b))
    ELSE StrLess(Head(a), Head(b))

RECURSIVE SortKeys(_)
SortKeys(ks) ==
    IF ks = {} THEN << >>
    ELSE LET m == CHOOSE x \in ks : \A y \in ks \ {x} : KeyLess(x, y)
         IN <<m>> \o SortKeys(ks \ {m})

\* nodesToStringSlice(getResp.Node.Nodes): every node below the listed one,
\* parents before children, siblings in key order
nodesToStringSlice(st, key) ==
    LET ks == SortKeys(Descendants(st, key))
    IN [i \in 1..Len(ks) |-> KeyStr(ks[i])]

\* the sub keys refreshExpiration rewrites for dopts.Fqdn
acmeMatch(fqdn, key) == Contains(key, Join(Split(fqdn, "."), "/"))

\* a loop over subKeys that stops after the first matching key
FilterKeysFirst(fqdn, ks) ==
    LET m == {i \in 1..Len(ks) : acmeMatch(fqdn, ks[i])}
    IN IF m = {} THEN Em ELSE <<ks[CHOOSE i \in m : \A j \in m : i <= j]>>

RECURSIVE FilterKeys(_, _)
FilterKeys(fqdn, ks) ==
    IF ks = Em THEN Em
    ELSE IF acmeMatch(fqdn, Head(ks)) THEN <<Head(ks)>> \o FilterKeys(fqdn, Tail(ks))
    ELSE FilterKeys(fqdn, Tail(ks))

(***************************************************************************)
(* Handlers in flight.  pr[p] is the frame of the call process p runs:     *)
(* the DomainOptions (fqdn, hosts, text), the locals of the handler, the   *)
(* snapshot d and error it returns, and a record of what the call did.     *)
(***************************************************************************)
ZeroDomain == [Fqdn |-> Em, Hosts |-> {}, Text |-> EmptyValue, Expiration |-> 0]

Frame(op, first, fq, hs, tx, ex, st, s) ==
    [op |-> op, pc |-> first, fqdn |-> fq, hosts |-> hs, text |-> tx,
     pth |-> Em, exist |-> ex, i |-> 0, tok |-> EmptyValue, exp |-> 0,
     cur |-> {}, todel |-> {}, toadd |-> {}, keys |-> << >>, aval |-> EmptyValue,
     d |-> ZeroDomain, err |-> "none",
     \* the record of the call
     dels |-> {}, sets |-> {}, ttls |-> {}, failed |-> FALSE, wafter |-> FALSE,
     dup |-> FALSE, pre |-> st,
     prev |-> [op |-> s.op, fqdn |-> s.fqdn, hosts |-> s.hosts, text |-> s.text,
               err |-> s.err]]

IdleFrame ==
    [op |-> "none", pc |-> "done", fqdn |-> Em, hosts |-> {}, text |-> Em,
     pth |-> Em, exist |-> FALSE, i |-> 0, tok |-> EmptyValue, exp |-> 0,
     cur |-> {}, todel |-> {}, toadd |-> {}, keys |-> << >>, aval |-> EmptyValue,
     d |-> ZeroDomain, err |-> "none",
     dels |-> {}, sets |-> {}, ttls |-> {}, failed |-> FALSE, wafter |-> FALSE,
     dup |-> FALSE, pre |-> << >>,
     prev |-> [op |-> "none", fqdn |-> Em, hosts |-> {}, text |-> Em, err |-> "none"]]

\* a round trip either reaches the store or fails in transport
Outcomes == IF faults > 0 THEN {TRUE, FALSE} ELSE {FALSE}

Spend(f) == faults' = IF f THEN faults - 1 ELSE faults

Unavailable == "Unavailable"

\* the frame after a round trip failed or succeeded, as the record of the call
Seen(s, e) == [s EXCEPT !.failed = @ \/ e = Unavailable]

Wrote(s, key, ttl) ==
    [s EXCEPT !.sets = @ \cup {key},
              !.ttls = IF ttl THEN @ \cup {key} ELSE @,
              !.wafter = @ \/ s.failed]

Removed(s, key) == [s EXCEPT !.dels = @ \cup {key}, !.wafter = @ \/ s.failed]

Return(s, e) == [s EXCEPT !.pc = "done", !.err = e]

(***************************************************************************)
(* setTokenOrigin(dopts, exist): two round trips.                          *)
(***************************************************************************)
\* generateTokenOrigin draws from these
Tokens == {<<"t", "1">>, <<"t", "2">>}

\* the token setTokenOrigin writes after its Get: the stored one when the
\* Get gave a response, a generated one otherwise (the Get's error is not read)
tokenAfterGet(st, key, e, fresh) == IF e = "ok" THEN NodeValue(st, key) ELSE Raw(fresh)

\* where a handler continues after setTokenOrigin returned nil
AfterToken(s) == IF s.op = "Renew" THEN "refreshDir" ELSE "setDir"

setTokenOrigin_Get(p) ==
    /\ pr[p].pc = "tokenGet"
    /\ \E f \in Outcomes, fresh \in Tokens :
         LET s == pr[p]
             key == KeyOf(tokenOriginPath(s.fqdn))
             e == IF f THEN Unavailable ELSE GetErr(store, key)
         IN /\ Spend(f)
            /\ pr' = [pr EXCEPT ![p] =
                        [Seen(s, e) EXCEPT !.tok = tokenAfterGet(store, key, e, fresh),
                                           !.pc = "tokenSet"]]
    /\ UNCHANGED <<store, now>>

setTokenOrigin_Set(p) ==
    /\ pr[p].pc = "tokenSet"
    /\ \E f \in Outcomes :
         LET s == pr[p]
             key == KeyOf(tokenOriginPath(s.fqdn))
             e == IF f THEN Unavailable ELSE KSetErr(store, key, s.tok, s.exist)
         IN /\ Spend(f)
            /\ IF e = "ok"
               THEN /\ store' = KSetStore(store, key, s.tok, FALSE, TRUE, s.exist, now)
                    /\ pr' = [pr EXCEPT ![p] =
                                [Wrote(s, key, TRUE) EXCEPT !.pc = AfterToken(s)]]
               ELSE /\ pr' = [pr EXCEPT ![p] = Return(Seen(s, e), e)]
                    /\ UNCHANGED store
    /\ UNCHANGED now

(***************************************************************************)
(* set(path, dopts, exist), after setTokenOrigin.                          *)
(***************************************************************************)
\* the loop a frame is in, or the end of set
SetLoopPc(s) ==
    IF s.todel # {} THEN "setDelete"
    ELSE IF s.toadd # {} THEN "setWrite"
    ELSE IF s.op = "Create" THEN "getDir"
    ELSE "done"

\* set's result once both loops are through
SetDone(s) ==
    LET t == [s EXCEPT !.d = [Fqdn |-> s.fqdn, Hosts |-> s.hosts,
                              Text |-> EmptyValue, Expiration |-> s.exp]]
    IN IF s.todel = {} /\ s.toadd = {}
       THEN [t EXCEPT !.pc = SetLoopPc(s), !.err = IF s.op = "Create" THEN "none" ELSE "ok"]
       ELSE [s EXCEPT !.pc = SetLoopPc(s)]

\* set with its delete loop left out, and with a write loop that skips no host
hostsToRemoveNone(old, new) == {}
hostsToAddAll(old, new) == new

\* the hosts set deletes and the hosts it writes, from the old and new maps
hostsToRemove(old, new) == {h \in old : h \notin new}
hostsToAdd(old, new) == {h \in new : h \notin old}

hostKey(pth, h) == KeyOf(pth \o <<"/">> \o formatKey(h))

set_Dir(p) ==
    /\ pr[p].pc = "setDir"
    /\ \E f \in Outcomes :
         LET s == pr[p]
             key == KeyOf(s.pth)
             e == IF f THEN Unavailable ELSE KSetErr(store, key, EmptyValue, s.exist)
             t == IF e = "ok" THEN Wrote(s, key, TRUE) ELSE Seen(s, e)
         IN /\ Spend(f)
            /\ store' = IF e = "ok"
                        THEN KSetStore(store, key, EmptyValue, TRUE, TRUE, s.exist, now)
                        ELSE store
            /\ pr' = [pr EXCEPT ![p] =
                        IF e = "ok"
                        THEN [t EXCEPT !.exp = NodeExp(store', key), !.pc = "setLookup"]
                        ELSE Return(t, e)]
    /\ UNCHANGED now

set_lookupHosts(p) ==
    /\ pr[p].pc = "setLookup"
    /\ \E f \in Outcomes :
         LET s == pr[p]
             key == KeyOf(s.pth)
             e == IF f THEN Unavailable
                  ELSE IF GetErr(store, key) # "ok" THEN GetErr(store, key)
                  ELSE IF lookupHostsErr(store, key) THEN "DataIntegrity"
                  ELSE "ok"
             cur == lookupHostsOf(store, key)
         IN /\ Spend(f)
            /\ pr' = [pr EXCEPT ![p] =
                 IF e = "ok"
                 THEN SetDone([s EXCEPT !.cur = cur,
                                        !.todel = hostsToRemove(cur, s.hosts),
                                        !.toadd = hostsToAdd(cur, s.hosts)])
                 ELSE Return(Seen(s, e), e)]
    /\ UNCHANGED <<store, now>>

set_Delete(p) ==
    /\ pr[p].pc = "setDelete"
    /\ \E f \in Outcomes, oldh \in pr[p].todel :
         LET s == pr[p]
             key == hostKey(s.pth, oldh)
             e == IF f THEN Unavailable ELSE DeleteErr(store, key, FALSE, FALSE)
         IN /\ Spend(f)
            /\ IF e = "ok"
               THEN /\ store' = DeleteStore(store, key)
                    /\ pr' = [pr EXCEPT ![p] =
                                SetDone([Removed(s, key) EXCEPT !.todel = @ \ {oldh}])]
               ELSE /\ pr' = [pr EXCEPT ![p] = Return(Seen(s, e), e)]
                    /\ UNCHANGED store
    /\ UNCHANGED now

set_Write(p) ==
    /\ pr[p].pc = "setWrite"
    /\ \E f \in Outcomes, newh \in pr[p].toadd :
         LET s == pr[p]
             key == hostKey(s.pth, newh)
             e == IF f THEN Unavailable ELSE KSetErr(store, key, formatValue(newh), FALSE)
         IN /\ Spend(f)
            /\ IF e = "ok"
               THEN /\ store' = KSetStore(store, key, formatValue(newh), FALSE, FALSE, FALSE, now)
                    /\ pr' = [pr EXCEPT ![p] =
                                SetDone([Wrote(s, key, FALSE) EXCEPT !.toadd = @ \ {newh}])]
               ELSE /\ pr' = [pr EXCEPT ![p] = Return(Seen(s, e), e)]
                    /\ UNCHANGED store
    /\ UNCHANGED now

(***************************************************************************)
(* Get, also the last step of Create.                                      *)
(***************************************************************************)
\* the history mark of a Create that returns the name of the directory at key
Claim(st, key) == [st EXCEPT ![key].claimed = TRUE]

Get_Dir(p) ==
    /\ pr[p].pc = "getDir"
    /\ \E f \in Outcomes :
         LET s == pr[p]
             key == KeyOf(path(s.fqdn))
             e == IF f THEN Unavailable ELSE GetErr(store, key)
             ok == e = "ok" /\ ~GetHostsErr(store, key)
             marks == ok /\ s.op = "Create" /\ key # Em
         IN /\ Spend(f)
            /\ store' = IF marks THEN Claim(store, key) ELSE store
            /\ pr' = [pr EXCEPT ![p] =
                 IF e # "ok" THEN Return(Seen(s, e), e)
                 ELSE IF GetHostsErr(store, key)
                 THEN Return([s EXCEPT !.d = [Fqdn |-> s.fqdn, Hosts |-> {},
                                              Text |-> EmptyValue,
                                              Expiration |-> NodeExp(store, key)]],
                             "DataIntegrity")
                 ELSE Return([s EXCEPT !.d = [Fqdn |-> s.fqdn,
                                              Hosts |-> GetHostsOf(store, key),
                                              Text |-> EmptyValue,
                                              Expiration |-> NodeExp(store, key)],
                                       !.dup = marks /\ store[key].claimed],
                             "ok")]
    /\ UNCHANGED now

(***************************************************************************)
(* Create: the slug loop, then set(path, dopts, false), then Get.          *)
(***************************************************************************)
\* fmt.Sprintf("%s.%s", generateSlug(), e.rootDomain)
slugFqdn(slug) == slug \o <<".">> \o rootDomain

\* the loop leaves at a candidate whose Get says key-not-found
slugFree(e) == e = "KeyNotFound"

Create_Probe(p, slugs, tries) ==
    /\ pr[p].pc = "createProbe"
    /\ \E f \in Outcomes, slug \in slugs :
         LET s == pr[p]
             fqdn == slugFqdn(slug)
             e == IF f THEN Unavailable ELSE GetErr(store, KeyOf(path(fqdn)))
             t == [Seen(s, e) EXCEPT !.pth = path(fqdn)]
         IN /\ Spend(f)
            /\ pr' = [pr EXCEPT ![p] =
                 IF slugFree(e)
                 THEN [t EXCEPT !.fqdn = fqdn, !.pc = "tokenGet"]
                 ELSE [t EXCEPT !.i = s.i + 1,
                                !.pc = IF s.i + 1 < tries
                                       THEN "createProbe" ELSE "tokenGet"]]
    /\ UNCHANGED <<store, now>>

(***************************************************************************)
(* Update: one Get for exist, then set(path, dopts, exist).                *)
(***************************************************************************)
\* an Update that takes every domain for an existing one
probeAlwaysExists(st, key, e) == TRUE

\* err == nil && resp != nil && resp.Node.Dir
probeIsDir(st, key, e) == e = "ok" /\ IsDir(st, key)

Update_Probe(p) ==
    /\ pr[p].pc = "updateProbe"
    /\ \E f \in Outcomes :
         LET s == pr[p]
             key == KeyOf(s.pth)
             e == IF f THEN Unavailable ELSE GetErr(store, key)
         IN /\ Spend(f)
            /\ pr' = [pr EXCEPT ![p] =
                        [Seen(s, e) EXCEPT !.exist = probeIsDir(store, key, e),
                                           !.pc = "tokenGet"]]
    /\ UNCHANGED <<store, now>>

(***************************************************************************)
(* Renew: refreshExpiration(path, dopts), after setTokenOrigin(dopts,true).*)
(***************************************************************************)
refreshExpiration_Dir(p) ==
    /\ pr[p].pc = "refreshDir"
    /\ \E f \in Outcomes :
         LET s == pr[p]
             key == KeyOf(s.pth)
             e == IF f THEN Unavailable ELSE KSetErr(store, key, EmptyValue, TRUE)
         IN /\ Spend(f)
            /\ IF e = "ok"
               THEN /\ store' = KSetStore(store, key, EmptyValue, TRUE, TRUE, TRUE, now)
                    /\ pr' = [pr EXCEPT ![p] =
                                [Wrote(s, key, TRUE) EXCEPT !.exp = NodeExp(store', key),
                                                            !.pc = "refreshLookup"]]
               ELSE /\ pr' = [pr EXCEPT ![p] = Return(Seen(s, e), e)]
                    /\ UNCHANGED store
    /\ UNCHANGED now

refreshExpiration_lookupHosts(p) ==
    /\ pr[p].pc = "refreshLookup"
    /\ \E f \in Outcomes :
         LET s == pr[p]
             key == KeyOf(s.pth)
             e == IF f THEN Unavailable
                  ELSE IF GetErr(store, key) # "ok" THEN GetErr(store, key)
                  ELSE IF lookupHostsErr(store, key) THEN "DataIntegrity"
                  ELSE "ok"
             cur == lookupHostsOf(store, key)
         IN /\ Spend(f)
            /\ pr' = [pr EXCEPT ![p] =
                 IF e = "ok"
                 THEN [s EXCEPT !.cur = cur,
                                !.d = [Fqdn |-> s.fqdn, Hosts |-> cur,
                                       Text |-> EmptyValue, Expiration |-> s.exp],
                                !.pc = "refreshList"]
                 ELSE Return(Seen(s, e), e)]
    /\ UNCHANGED <<store, now>>

\* the loop over subKeys: at the next matching key, or through
AcmeLoop(s) == IF s.keys = << >> THEN Return(s, "ok") ELSE [s EXCEPT !.pc = "acmeGet"]

refreshExpiration_List(p) ==
    /\ pr[p].pc = "refreshList"
    /\ \E f \in Outcomes :
         LET s == pr[p]
             key == KeyOf(acmeRoot)
             e == IF f THEN Unavailable ELSE GetErr(store, key)
         IN /\ Spend(f)
            /\ pr' = [pr EXCEPT ![p] =
                 IF e = "ok"
                 THEN AcmeLoop([s EXCEPT !.keys =
                                   FilterKeys(s.fqdn, nodesToStringSlice(store, key))])
                 ELSE Return(Seen(s, e), e)]
    /\ UNCHANGED <<store, now>>

refreshExpiration_AcmeGet(p) ==
    /\ pr[p].pc = "acmeGet"
    /\ \E f \in Outcomes :
         LET s == pr[p]
             key == KeyOf(Head(s.keys))
             e == IF f THEN Unavailable ELSE GetErr(store, key)
         IN /\ Spend(f)
            /\ pr' = [pr EXCEPT ![p] =
                 IF e = "ok"
                 THEN [s EXCEPT !.aval = NodeValue(store, key), !.pc = "acmeSet"]
                 ELSE Return(Seen(s, e), e)]
    /\ UNCHANGED <<store, now>>

refreshExpiration_AcmeSet(p) ==
    /\ pr[p].pc = "acmeSet"
    /\ \E f \in Outcomes :
         LET s == pr[p]
             key == KeyOf(Head(s.keys))
             e == IF f THEN Unavailable ELSE KSetErr(store, key, s.aval, TRUE)
         IN /\ Spend(f)
            /\ IF e = "ok"
               THEN /\ store' = KSetStore(store, key, s.aval, FALSE, TRUE, TRUE, now)
                    /\ pr' = [pr EXCEPT ![p] =
                                AcmeLoop([Wrote(s, key, TRUE) EXCEPT !.keys = Tail(@)])]
               ELSE /\ pr' = [pr EXCEPT ![p] = Return(Seen(s, e), e)]
                    /\ UNCHANGED store
    /\ UNCHANGED now

(***************************************************************************)
(* Delete and DeleteText: one recursive delete.                            *)
(***************************************************************************)
Delete_Dir(p) ==
    /\ pr[p].pc = "deleteDir"
    /\ \E f \in Outcomes :
         LET s == pr[p]
             key == KeyOf(s.pth)
             e == IF f THEN Unavailable ELSE DeleteErr(store, key, TRUE, TRUE)
         IN /\ Spend(f)
            /\ IF e = "ok"
               THEN /\ store' = DeleteStore(store, key)
                    /\ pr' = [pr EXCEPT ![p] = Return(Removed(s, key), "ok")]
               ELSE /\ pr' = [pr EXCEPT ![p] = Return(Seen(s, e), e)]
                    /\ UNCHANGED store
    /\ UNCHANGED now

(***************************************************************************)
(* CreateText, UpdateText, GetText: a probe, then setText; one Get.        *)
(***************************************************************************)
\* exist := true; if err != nil && client.IsKeyNotFound(err) { exist = false }
textExists(e) == e # "KeyNotFound"

CreateText_Probe(p) ==
    /\ pr[p].pc = "createTextProbe"
    /\ \E f \in Outcomes :
         LET s == pr[p]
             e == IF f THEN Unavailable ELSE GetErr(store, KeyOf(s.pth))
         IN /\ Spend(f)
            /\ pr' = [pr EXCEPT ![p] =
                        [Seen(s, e) EXCEPT !.exist = textExists(e), !.pc = "setText"]]
    /\ UNCHANGED <<store, now>>

UpdateText_Probe(p) ==
    /\ pr[p].pc = "updateTextProbe"
    /\ \E f \in Outcomes :
         LET s == pr[p]
             key == KeyOf(s.pth)
             e == IF f THEN Unavailable ELSE GetErr(store, key)
         IN /\ Spend(f)
            /\ pr' = [pr EXCEPT ![p] =
                        [Seen(s, e) EXCEPT !.exist = probeIsDir(store, key, e),
                                           !.pc = "setText"]]
    /\ UNCHANGED <<store, now>>

setText_Set(p) ==
    /\ pr[p].pc = "setText"
    /\ \E f \in Outcomes :
         LET s == pr[p]
             key == KeyOf(s.pth)
             v == formatTextValue(s.text)
             e == IF f THEN Unavailable ELSE KSetErr(store, key, v, s.exist)
         IN /\ Spend(f)
            /\ IF e = "ok"
               THEN /\ store' = KSetStore(store, key, v, FALSE, TRUE, s.exist, now)
                    /\ pr' = [pr EXCEPT ![p] =
                                Return([Wrote(s, key, TRUE) EXCEPT
                                           !.d = [Fqdn |-> s.fqdn, Hosts |-> {},
                                                  Text |-> Raw(s.text),
                                                  Expiration |-> NodeExp(store', key)]],
                                       "ok")]
               ELSE /\ pr' = [pr EXCEPT ![p] = Return(Seen(s, e), e)]
                    /\ UNCHANGED store
    /\ UNCHANGED now

\* d.Text = resp.Node.Value
textOfNode(value) == value

GetText_Get(p) ==
    /\ pr[p].pc = "getText"
    /\ \E f \in Outcomes :
         LET s == pr[p]
             key == KeyOf(s.pth)
             e == IF f THEN Unavailable ELSE GetErr(store, key)
         IN /\ Spend(f)
            /\ pr' = [pr EXCEPT ![p] =
                 IF e = "ok"
                 THEN Return([s EXCEPT !.d = [Fqdn |-> s.fqdn, Hosts |-> {},
                                              Text |-> textOfNode(NodeValue(store, key)),
                                              Expiration |-> NodeExp(store, key)]],
                             "ok")
                 ELSE Return(Seen(s, e), e)]
    /\ UNCHANGED <<store, now>>

(***************************************************************************)
(* GetTokenOrigin: one Get.                                                *)
(***************************************************************************)
GetTokenOrigin_Get(p) ==
    /\ pr[p].pc = "getTokenOrigin"
    /\ \E f \in Outcomes :
         LET s == pr[p]
             key == KeyOf(tokenOriginPath(s.fqdn))
             e == IF f THEN Unavailable ELSE GetErr(store, key)
         IN /\ Spend(f)
            /\ pr' = [pr EXCEPT ![p] =
                 IF e = "ok"
                 THEN Return([s EXCEPT !.tok = NodeValue(store, key)], "ok")
                 ELSE Return(Seen(s, e), e)]
    /\ UNCHANGED <<store, now>>

DeleteText_Delete(p) ==
    /\ pr[p].pc = "deleteText"
    /\ \E f \in Outcomes :
         LET s == pr[p]
             key == KeyOf(s.pth)
             e == IF f THEN Unavailable ELSE DeleteErr(store, key, TRUE, TRUE)
         IN /\ Spend(f)
            /\ IF e = "ok"
               THEN /\ store' = DeleteStore(store, key)
                    /\ pr' = [pr EXCEPT ![p] = Return(Removed(s, key), "ok")]
               ELSE /\ pr' = [pr EXCEPT ![p] = Return(Seen(s, e), e)]
                    /\ UNCHANGED store
    /\ UNCHANGED now

(***************************************************************************)
(* The request handler calls an operation with a DomainOptions value.      *)
(***************************************************************************)
Procs == {1, 2}

Call(p, frame) ==
    /\ pr[p].pc = "done"
    /\ pr' = [pr EXCEPT ![p] = frame]
    /\ UNCHANGED <<store, now, faults>>

\* a frame without the record of the store at the call and of the call before
Lean(frame) == [frame EXCEPT !.pre = << >>, !.prev = IdleFrame.prev]

CallCreate(p, hs) ==
    Call(p, Frame("Create", "createProbe", Em, hs, Em, FALSE, store, pr[p]))

CallCreateLean(p, hs) ==
    Call(p, Lean(Frame("Create", "createProbe", Em, hs, Em, FALSE, store, pr[p])))

CallUpdate(p, fq, hs) ==
    Call(p, [Frame("Update", "updateProbe", fq, hs, Em, FALSE, store, pr[p])
                EXCEPT !.pth = path(fq)])

CallRenew(p, fq) ==
    Call(p, [Frame("Renew", "tokenGet", fq, {}, Em, TRUE, store, pr[p])
                EXCEPT !.pth = path(fq)])

\* a Delete that takes the token of the domain for its path
CallDeleteToken(p, fq) ==
    Call(p, [Frame("Delete", "deleteDir", fq, {}, Em, FALSE, store, pr[p])
                EXCEPT !.pth = tokenOriginPath(fq)])

CallDelete(p, fq) ==
    Call(p, [Frame("Delete", "deleteDir", fq, {}, Em, FALSE, store, pr[p])
                EXCEPT !.pth = path(fq)])

CallDeleteLean(p, fq) ==
    Call(p, Lean([Frame("Delete", "deleteDir", fq, {}, Em, FALSE, store, pr[p])
                     EXCEPT !.pth = path(fq)]))

CallGet(p, fq) ==
    Call(p, Frame("Get", "getDir", fq, {}, Em, FALSE, store, pr[p]))

CallCreateText(p, fq, tx) ==
    Call(p, [Frame("CreateText", "createTextProbe", fq, {}, tx, FALSE, store, pr[p])
                EXCEPT !.pth = textPath(fq)])

CallUpdateText(p, fq, tx) ==
    Call(p, [Frame("UpdateText", "updateTextProbe", fq, {}, tx, FALSE, store, pr[p])
                EXCEPT !.pth = textPath(fq)])

CallGetText(p, fq) ==
    Call(p, [Frame("GetText", "getText", fq, {}, Em, FALSE, store, pr[p])
                EXCEPT !.pth = textPath(fq)])

CallDeleteText(p, fq) ==
    Call(p, [Frame("DeleteText", "deleteText", fq, {}, Em, FALSE, store, pr[p])
                EXCEPT !.pth = textPath(fq)])

CallGetTokenOrigin(p, fq) ==
    Call(p, Frame("GetTokenOrigin", "getTokenOrigin", fq, {}, Em, FALSE, store, pr[p]))

\* The clock advances between calls; the store drops what has expired.
Tick ==
    /\ now < MaxTime
    /\ \A p \in Procs : pr[p].pc = "done"
    /\ now' = now + 1
    /\ store' = ExpireStore(store, now')
    /\ pr' = [p \in Procs |-> IdleFrame]
    /\ UNCHANGED faults

(***************************************************************************)
(* The inputs of the model.                                                *)
(***************************************************************************)
H1 == <<"1", ".", "1">>
H2 == <<"1", ".", "2">>
H3 == <<"2", ".", "1">>
Hosts == {H1, H2, H3}

SlugA == <<"a">>
SlugB == <<"b">>
D1 == slugFqdn(SlugA)
D2 == slugFqdn(SlugB)

\* _acme-challenge.a.lb and _acme-challenge.x.a.lb
Acme1 == AcmeLabel \o <<".">> \o D1
Acme2 == AcmeLabel \o <<".", "x", ".">> \o D1

V1 == <<"k", "1">>
V2 == <<"k", "2">>

\* a fresh store; n round trips may fail
InitWith(n) ==
    /\ store = << >>
    /\ now = 0
    /\ faults = n
    /\ pr = [p \in Procs |-> IdleFrame]

Init == InitWith(0)

(***************************************************************************)
(* Spec: one client, calls one after another, a store that answers.        *)
(***************************************************************************)
Next ==
    \/ \E hs \in SUBSET Hosts : CallUpdate(1, D1, hs)
    \/ CallRenew(1, D1)
    \/ CallDelete(1, D1)
    \/ CallGet(1, D1)
    \/ \E fq \in {Acme1, Acme2} : CallCreateText(1, fq, V1)
    \/ Update_Probe(1)
    \/ setTokenOrigin_Get(1)
    \/ setTokenOrigin_Set(1)
    \/ set_Dir(1)
    \/ set_lookupHosts(1)
    \/ set_Delete(1)
    \/ set_Write(1)
    \/ Get_Dir(1)
    \/ refreshExpiration_Dir(1)
    \/ refreshExpiration_lookupHosts(1)
    \/ refreshExpiration_List(1)
    \/ refreshExpiration_AcmeGet(1)
    \/ refreshExpiration_AcmeSet(1)
    \/ Delete_Dir(1)
    \/ CreateText_Probe(1)
    \/ setText_Set(1)
    \/ Tick

Spec == Init /\ [][Next]_vars

(***************************************************************************)
(* SpecText: one client of the text records.                               *)
(***************************************************************************)
NextText ==
    \/ \E fq \in {Acme1, D1}, tx \in {V1, V2} : CallCreateText(1, fq, tx)
    \/ \E fq \in {Acme1, D1}, tx \in {V1, V2} : CallUpdateText(1, fq, tx)
    \/ \E fq \in {Acme1, D1} : CallGetText(1, fq)
    \/ \E fq \in {Acme1, D1} : CallDeleteText(1, fq)
    \/ CreateText_Probe(1)
    \/ UpdateText_Probe(1)
    \/ setText_Set(1)
    \/ GetText_Get(1)
    \/ DeleteText_Delete(1)
    \/ Tick

SpecText == Init /\ [][NextText]_vars

(***************************************************************************)
(* SpecExhaust: one client of Create, with a single slug to draw and text  *)
(* records on the name that slug gives.                                    *)
(***************************************************************************)
NextExhaust ==
    \/ CallCreate(1, {H1})
    \/ \E tx \in {V1, V2} : CallCreateText(1, D1, tx)
    \/ CallDelete(1, D1)
    \/ Create_Probe(1, {SlugA}, maxSlugHashTimes)
    \/ setTokenOrigin_Get(1)
    \/ setTokenOrigin_Set(1)
    \/ set_Dir(1)
    \/ set_lookupHosts(1)
    \/ set_Write(1)
    \/ Get_Dir(1)
    \/ CreateText_Probe(1)
    \/ setText_Set(1)
    \/ Delete_Dir(1)
    \/ Tick

SpecExhaust == Init /\ [][NextExhaust]_vars

(***************************************************************************)
(* SpecCreate: two clients whose Create and Delete calls interleave round  *)
(* trip by round trip; the slug loop is cut to RaceTries attempts.         *)
(***************************************************************************)
NextCreate ==
    \E p \in Procs :
        \/ CallCreateLean(p, {H1})
        \/ \E fq \in {D1, D2} : CallDeleteLean(p, fq)
        \/ Create_Probe(p, {SlugA, SlugB}, RaceTries)
        \/ setTokenOrigin_Get(p)
        \/ setTokenOrigin_Set(p)
        \/ set_Dir(p)
        \/ set_lookupHosts(p)
        \/ set_Write(p)
        \/ Get_Dir(p)
        \/ Delete_Dir(p)

SpecCreate == Init /\ [][NextCreate]_vars

(***************************************************************************)
(* SpecFault: one client of every operation; one round trip may fail.      *)
(***************************************************************************)
NextFault ==
    \/ \E hs \in {{}, {H1}} : CallUpdate(1, D1, hs)
    \/ CallRenew(1, D1)
    \/ CallDelete(1, D1)
    \/ CallCreate(1, {H1})
    \/ CallCreateText(1, Acme1, V1)
    \/ CallUpdateText(1, Acme1, V2)
    \/ CallDeleteText(1, Acme1)
    \/ CallGetTokenOrigin(1, D1)
    \/ Update_Probe(1)
    \/ Create_Probe(1, {SlugA}, maxSlugHashTimes)
    \/ setTokenOrigin_Get(1)
    \/ setTokenOrigin_Set(1)
    \/ set_Dir(1)
    \/ set_lookupHosts(1)
    \/ set_Delete(1)
    \/ set_Write(1)
    \/ Get_Dir(1)
    \/ refreshExpiration_Dir(1)
    \/ refreshExpiration_lookupHosts(1)
    \/ refreshExpiration_List(1)
    \/ refreshExpiration_AcmeGet(1)
    \/ refreshExpiration_AcmeSet(1)
    \/ Delete_Dir(1)
    \/ CreateText_Probe(1)
    \/ UpdateText_Probe(1)
    \/ setText_Set(1)
    \/ DeleteText_Delete(1)
    \/ GetTokenOrigin_Get(1)
    \/ Tick

SpecFault == InitWith(MaxFaults) /\ [][NextFault]_vars

(***************************************************************************)
(* Properties.                                                             *)
(***************************************************************************)
Done(s, op) == s.op = op /\ s.pc = "done"

dirKey(fq) == KeyOf(path(fq))
tokenKey(fq) == KeyOf(tokenOriginPath(fq))

HostKeys(fq, hs) == {hostKey(path(fq), h) : h \in hs}

\* the host set a Get of fq reads in store st
StoredHosts(st, fq) == GetHostsOf(st, dirKey(fq))

\* C2: a successful Update of a domain storing hosts A to hosts B deletes
\* exactly the keys of A \ B, writes exactly the keys of B \ A, leaves the
\* entries of both sets as they were, and Get then reads exactly B.
C2_Reconcile ==
    \A p \in Procs :
      LET s == pr[p]
          A == StoredHosts(s.pre, s.fqdn)
          B == s.hosts
      IN Done(s, "Update") /\ s.err = "ok" =>
           /\ s.dels = HostKeys(s.fqdn, A \ B)
           /\ s.sets \ {tokenKey(s.fqdn), dirKey(s.fqdn)} = HostKeys(s.fqdn, B \ A)
           /\ \A k \in HostKeys(s.fqdn, A \cap B) : k \in DOMAIN store /\ store[k] = s.pre[k]
           /\ GetErr(store, dirKey(s.fqdn)) = "ok"
           /\ StoredHosts(store, s.fqdn) = B

C2_Witness ==
    \E p \in Procs :
      LET s == pr[p]
          A == StoredHosts(s.pre, s.fqdn)
      IN /\ Done(s, "Update") /\ s.err = "ok"
         /\ A \ s.hosts # {} /\ s.hosts \ A # {} /\ A \cap s.hosts # {}

\* C3: an Update that directly follows a successful Update of the same domain
\* with the same hosts deletes no host key, writes no host key and leaves the
\* stored host set as the first call left it.
SameUpdateAgain(s) ==
    /\ Done(s, "Update")
    /\ s.prev.op = "Update" /\ s.prev.err = "ok"
    /\ s.prev.fqdn = s.fqdn /\ s.prev.hosts = s.hosts

C3_UpdateIdempotent ==
    \A p \in Procs :
      LET s == pr[p]
      IN SameUpdateAgain(s) =>
           /\ s.err = "ok"
           /\ s.dels = {}
           /\ s.sets \subseteq {tokenKey(s.fqdn), dirKey(s.fqdn)}
           /\ StoredHosts(store, s.fqdn) = StoredHosts(s.pre, s.fqdn)
           /\ StoredHosts(store, s.fqdn) = s.hosts

C3_Witness ==
    \E p \in Procs : SameUpdateAgain(pr[p]) /\ Cardinality(pr[p].hosts) = 2

\* C4: Renew of a domain whose directory and token both exist, on a store that
\* answers every request, returns no error and a snapshot with the name, the
\* stored hosts and the new expiration, whatever the number of ACME entries.
RenewReady(s) ==
    /\ Done(s, "Renew") /\ ~s.failed
    /\ IsDir(s.pre, dirKey(s.fqdn))
    /\ tokenKey(s.fqdn) \in DOMAIN s.pre

C4_RenewSucceeds ==
    \A p \in Procs :
      LET s == pr[p]
      IN RenewReady(s) =>
           /\ s.err = "ok"
           /\ s.d = [Fqdn |-> s.fqdn, Hosts |-> StoredHosts(store, s.fqdn),
                     Text |-> EmptyValue, Expiration |-> now + TTLTicks]

\* the ACME TXT entries of st registered for fq or for a name below fq
AcmeEntries(st, fq) ==
    LET root == KeyOf(acmeRoot)
        labels == Split(fq, ".")
    IN {k \in Descendants(st, root) :
          /\ ~st[k].dir
          /\ Len(k) - Len(root) >= Len(labels)
          /\ SubSeq(k, Len(k) - Len(labels) + 1, Len(k)) = labels}

\* C5: a successful Renew resets the TTL of every ACME TXT entry of the
\* domain and leaves the value of each as it was.
C5_RenewAcme ==
    \A p \in Procs :
      LET s == pr[p]
      IN Done(s, "Renew") /\ s.err = "ok" =>
           \A k \in AcmeEntries(s.pre, s.fqdn) :
              /\ k \in s.ttls
              /\ k \in DOMAIN store
              /\ store[k].exp = now + TTLTicks
              /\ store[k].value = s.pre[k].value

C5_Witness ==
    \E p \in Procs :
      LET s == pr[p]
      IN /\ Done(s, "Renew") /\ s.err = "ok"
         /\ Cardinality(AcmeEntries(s.pre, s.fqdn)) = 2
         /\ \A k \in AcmeEntries(s.pre, s.fqdn) : s.pre[k].exp < store[k].exp

\* C10: a Renew, whether it succeeds or fails, resets the TTL of the token and
\* of the registration directory together or of neither.
C10_RenewTogether ==
    \A p \in Procs :
      LET s == pr[p]
      IN Done(s, "Renew") =>
           (tokenKey(s.fqdn) \in s.ttls <=> dirKey(s.fqdn) \in s.ttls)

\* C1: a GetText that directly follows a successful CreateText or UpdateText
\* of the same name with text v returns a snapshot whose Text is v itself.
AfterTextWrite(s) ==
    /\ Done(s, "GetText")
    /\ s.prev.op \in {"CreateText", "UpdateText"} /\ s.prev.err = "ok"
    /\ s.prev.fqdn = s.fqdn

C1_TextRoundTrip ==
    \A p \in Procs :
      LET s == pr[p]
      IN AfterTextWrite(s) => s.err = "ok" /\ s.d.Text = Raw(s.prev.text)

\* C6: a Create whose maxSlugHashTimes candidates all exist returns an error
\* and has written no token, no directory and no host key.
C6_ExhaustionFails ==
    \A p \in Procs :
      LET s == pr[p]
      IN Done(s, "Create") /\ s.i = maxSlugHashTimes =>
           s.err # "ok" /\ s.sets = {} /\ s.dels = {}

\* C7: no Create returns with success the name of a registration directory
\* that an earlier successful Create returned and that has existed since.
C7_CreateUnique ==
    \A p \in Procs :
      LET s == pr[p]
      IN Done(s, "Create") /\ s.err = "ok" => ~s.dup

\* two Creates found the same slug free: one returned it, the other was refused
\* by the Set of the directory
C7_Witness ==
    \E p, q \in Procs :
      /\ p # q
      /\ Done(pr[p], "Create") /\ pr[p].err = "ok" /\ pr[p].d.Fqdn = D1
      /\ Done(pr[q], "Create") /\ pr[q].err = "NotFile" /\ pr[q].fqdn = D1

\* C8: the value of a stored token does not change while the token is stored.
IsTokenKey(k) == Len(k) = 2 /\ IsPrefix(KeyOf(tokenOriginPathConst), k)

C8_TokenStable ==
    [][\A k \in DOMAIN store \cap DOMAIN store' :
          IsTokenKey(k) => store'[k].value = store[k].value]_vars

\* C9: an operation one of whose round trips failed in transport returns an
\* error and writes nothing after the failure.
C9_NoSwallowedError ==
    \A p \in Procs :
      LET s == pr[p]
      IN s.failed => ~s.wafter /\ (s.pc = "done" => s.err # "ok")

\* C11: a successful Delete leaves no registration directory and no entry below
\* it, and a Get of the same name that directly follows it returns the
\* key-not-found error.
GetAfterDelete(s) ==
    /\ Done(s, "Get")
    /\ s.prev.op = "Delete" /\ s.prev.err = "ok" /\ s.prev.fqdn = s.fqdn

C11_DeleteThenGet ==
    \A p \in Procs :
      LET s == pr[p]
      IN /\ Done(s, "Delete") /\ s.err = "ok" =>
              /\ dirKey(s.fqdn) \notin DOMAIN store
              /\ Descendants(store, dirKey(s.fqdn)) = {}
         /\ GetAfterDelete(s) =>
              /\ s.err = "KeyNotFound"
              /\ dirKey(s.fqdn) \notin DOMAIN store
              /\ Descendants(store, dirKey(s.fqdn)) = {}

\* a Get after the Delete of a domain that had been registered (its token is there)
C11_Witness ==
    \E p \in Procs :
      /\ GetAfterDelete(pr[p]) /\ pr[p].err = "KeyNotFound"
      /\ tokenKey(pr[p].fqdn) \in DOMAIN store

\* C12: an Update of a domain without registration directory succeeds, makes
\* the directory with the default TTL, stores a token (the stored value if
\* there was one) and leaves exactly the desired hosts stored.
UpdateOfMissing(s) == Done(s, "Update") /\ ~IsDir(s.pre, dirKey(s.fqdn))

C12_UpdateUpsert ==
    \A p \in Procs :
      LET s == pr[p]
          dk == dirKey(s.fqdn)
          tk == tokenKey(s.fqdn)
      IN UpdateOfMissing(s) =>
           /\ s.err = "ok"
           /\ dk \in s.sets /\ IsDir(store, dk) /\ store[dk].exp = now + TTLTicks
           /\ tk \in DOMAIN store /\ ~store[tk].dir
           /\ store[tk].value[2] \in Tokens
           /\ tk \in DOMAIN s.pre => store[tk].value = s.pre[tk].value
           /\ StoredHosts(store, s.fqdn) = s.hosts
           /\ s.d = [Fqdn |-> s.fqdn, Hosts |-> s.hosts,
                     Text |-> EmptyValue, Expiration |-> now + TTLTicks]

\* an Update with hosts of a domain whose directory was deleted and whose
\* token is still stored
C12_Witness ==
    \E p \in Procs :
      LET s == pr[p]
      IN /\ UpdateOfMissing(s) /\ s.err = "ok"
         /\ tokenKey(s.fqdn) \in DOMAIN s.pre
         /\ Cardinality(s.hosts) = 2

(***************************************************************************)
(* SpecUpdate: two clients whose Update calls on one domain interleave     *)
(* round trip by round trip.                                               *)
(***************************************************************************)
CallUpdateLean(p, fq, hs) ==
    Call(p, Lean([Frame("Update", "updateProbe", fq, hs, Em, FALSE, store, pr[p])
                     EXCEPT !.pth = path(fq)]))

NextUpdate ==
    \E p \in Procs :
        \/ \E hs \in SUBSET {H1, H2} : CallUpdateLean(p, D1, hs)
        \/ Update_Probe(p)
        \/ setTokenOrigin_Get(p)
        \/ setTokenOrigin_Set(p)
        \/ set_Dir(p)
        \/ set_lookupHosts(p)
        \/ set_Delete(p)
        \/ set_Write(p)

SpecUpdate == Init /\ [][NextUpdate]_vars

\* both clients have returned from a successful Update of the same domain
BothUpdated ==
    /\ \A p \in Procs : Done(pr[p], "Update") /\ pr[p].err = "ok"
    /\ pr[1].fqdn = pr[2].fqdn

\* C13: when two Updates of one domain both return success, the stored host
\* set is a subset of the union of their desired sets.
C13_UnionBound ==
    BothUpdated => StoredHosts(store, pr[1].fqdn) \subseteq pr[1].hosts \cup pr[2].hosts

\* C13, the execution the claim says there is: both Updates returned success
\* and the stored host set is neither of the two desired sets
C13_Witness ==
    /\ BothUpdated
    /\ StoredHosts(store, pr[1].fqdn) # pr[1].hosts
    /\ StoredHosts(store, pr[1].fqdn) # pr[2].hosts

(***************************************************************************)
(* SpecLife: one client of Create, Update, Renew and Delete on a clock     *)
(* that also advances between two round trips of a call.                   *)
(***************************************************************************)
\* The clock advances while a call is in flight; the store drops what has
\* expired.
Elapse ==
    /\ now < MaxTime
    /\ \E p \in Procs : pr[p].pc # "done"
    /\ now' = now + 1
    /\ store' = ExpireStore(store, now')
    /\ UNCHANGED <<pr, faults>>

CallRenewLean(p, fq) ==
    Call(p, Lean([Frame("Renew", "tokenGet", fq, {}, Em, TRUE, store, pr[p])
                     EXCEPT !.pth = path(fq)]))

NextLife ==
    \/ CallCreateLean(1, {H1})
    \/ \E hs \in {{}, {H1}} : CallUpdateLean(1, D1, hs)
    \/ CallRenewLean(1, D1)
    \/ CallDeleteLean(1, D1)
    \/ Create_Probe(1, {SlugA}, maxSlugHashTimes)
    \/ Update_Probe(1)
    \/ setTokenOrigin_Get(1)
    \/ setTokenOrigin_Set(1)
    \/ set_Dir(1)
    \/ set_lookupHosts(1)
    \/ set_Delete(1)
    \/ set_Write(1)
    \/ Get_Dir(1)
    \/ refreshExpiration_Dir(1)
    \/ refreshExpiration_lookupHosts(1)
    \/ refreshExpiration_List(1)
    \/ Delete_Dir(1)
    \/ Tick
    \/ Elapse

SpecLife == Init /\ [][NextLife]_vars

\* C14: whenever no call is in flight, a domain whose registration directory
\* exists has a stored ownership token (a Get of the domain succeeds only if
\* GetTokenOrigin does).
C14_TokenWithDir ==
    (\A p \in Procs : pr[p].pc = "done") =>
        \A fq \in {D1} : IsDir(store, dirKey(fq)) => tokenKey(fq) \in DOMAIN store

(***************************************************************************)
(* SpecKeys: one client updating names and hosts that differ only in "."   *)
(* and "_".                                                                *)
(***************************************************************************)
\* a_b.lb and a.b.lb
DUnder == <<"a", "_", "b", ".">> \o rootDomain
DSub == <<"a", ".", "b", ".">> \o rootDomain
Names == {DUnder, DSub}

\* 1_1, beside 1.1
HUnder == <<"1", "_", "1">>

NextKeys ==
    \/ \E fq \in Names, hs \in SUBSET {H1, HUnder} : CallUpdateLean(1, fq, hs)
    \/ Update_Probe(1)
    \/ setTokenOrigin_Get(1)
    \/ setTokenOrigin_Set(1)
    \/ set_Dir(1)
    \/ set_lookupHosts(1)
    \/ set_Delete(1)
    \/ set_Write(1)

SpecKeys == Init /\ [][NextKeys]_vars

\* C15: an Update never writes the token key of another domain, and a
\* successful Update stores each of the desired hosts under a key of its own.
C15_KeysInjective ==
    \A p \in Procs :
      LET s == pr[p]
      IN s.op = "Update" =>
           /\ \A d2 \in Names \ {s.fqdn} : tokenKey(d2) \notin s.sets
           /\ s.pc = "done" /\ s.err = "ok" =>
                /\ StoredHosts(store, s.fqdn) = s.hosts
                /\ Cardinality(HostKeys(s.fqdn, s.hosts)) = Cardinality(s.hosts)

\* C16: a Delete, successful or not, writes no key and leaves every stored
\* token as it was: no token removed, none added, value and expiration kept.
TokenKeys(st) == {k \in DOMAIN st : IsTokenKey(k)}

C16_DeleteKeepsToken ==
    \A p \in Procs :
      LET s == pr[p]
      IN Done(s, "Delete") =>
           /\ s.sets = {}
           /\ \A k \in s.dels : ~IsPrefix(KeyOf(tokenOriginPathConst), k)
           /\ TokenKeys(store) = TokenKeys(s.pre)
           /\ \A k \in TokenKeys(s.pre) : store[k] = s.pre[k]

\* a successful Delete of a domain whose token is stored
C16_Witness ==
    \E p \in Procs :
      LET s == pr[p]
      IN /\ Done(s, "Delete") /\ s.err = "ok"
         /\ tokenKey(s.fqdn) \in DOMAIN s.pre
         /\ StoredHosts(s.pre, s.fqdn) # {}

(***************************************************************************)
(* SpecAcme: one client renewing a.lb beside the ACME text records of      *)
(* a.lb and of ba.lb.                                                      *)
(***************************************************************************)
\* ba.lb, and _acme-challenge.ba.lb
DOther == <<"b", "a", ".">> \o rootDomain
AcmeOther == AcmeLabel \o <<".">> \o DOther

NextAcme ==
    \/ CallUpdate(1, D1, {})
    \/ CallRenew(1, D1)
    \/ \E fq \in {Acme1, AcmeOther} : CallCreateText(1, fq, V1)
    \/ Update_Probe(1)
    \/ setTokenOrigin_Get(1)
    \/ setTokenOrigin_Set(1)
    \/ set_Dir(1)
    \/ set_lookupHosts(1)
    \/ refreshExpiration_Dir(1)
    \/ refreshExpiration_lookupHosts(1)
    \/ refreshExpiration_List(1)
    \/ refreshExpiration_AcmeGet(1)
    \/ refreshExpiration_AcmeSet(1)
    \/ CreateText_Probe(1)
    \/ setText_Set(1)
    \/ Tick

SpecAcme == Init /\ [][NextAcme]_vars

\* C17: a Renew of d leaves the expiration of every ACME TXT entry that is not
\* an entry of d as it was, and writes none of them.
C17_RenewOwnAcme ==
    \A p \in Procs :
      LET s == pr[p]
          others == Descendants(s.pre, KeyOf(acmeRoot)) \ AcmeEntries(s.pre, s.fqdn)
      IN Done(s, "Renew") =>
           \A k \in others :
              /\ k \notin s.sets
              /\ k \in DOMAIN store /\ store[k].exp = s.pre[k].exp

(***************************************************************************)
(* SpecNested: one client of a.lb and of x.a.lb, whose directory lies      *)
(* below that of a.lb.                                                     *)
(***************************************************************************)
\* x.a.lb
DNest == <<"x", ".">> \o D1
Nested == {D1, DNest}

NextNested ==
    \/ \E fq \in Nested, hs \in {{}, {H1}} : CallUpdate(1, fq, hs)
    \/ \E fq \in Nested : CallDelete(1, fq)
    \/ \E fq \in Nested : CallGet(1, fq)
    \/ Update_Probe(1)
    \/ setTokenOrigin_Get(1)
    \/ setTokenOrigin_Set(1)
    \/ set_Dir(1)
    \/ set_lookupHosts(1)
    \/ set_Delete(1)
    \/ set_Write(1)
    \/ Get_Dir(1)
    \/ Delete_Dir(1)
    \/ Tick

SpecNested == Init /\ [][NextNested]_vars

\* C18: a Delete of d leaves the registration directory, the stored hosts and
\* the expiration of every other registered domain as they were.
C18_DeleteIsolated ==
    \A p \in Procs :
      LET s == pr[p]
      IN Done(s, "Delete") =>
           \A d2 \in Nested \ {s.fqdn} :
              IsDir(s.pre, dirKey(d2)) =>
                 /\ IsDir(store, dirKey(d2))
                 /\ store[dirKey(d2)].exp = s.pre[dirKey(d2)].exp
                 /\ StoredHosts(store, d2) = StoredHosts(s.pre, d2)

(***************************************************************************)
(* SpecRenewText: client 1 registers and renews a.lb while client 2 writes *)
(* the ACME text record of a.lb; their round trips interleave.             *)
(***************************************************************************)
CallCreateTextLean(p, fq, tx) ==
    Call(p, Lean([Frame("CreateText", "createTextProbe", fq, {}, tx, FALSE, store, pr[p])
                     EXCEPT !.pth = textPath(fq)]))

CallUpdateTextLean(p, fq, tx) ==
    Call(p, Lean([Frame("UpdateText", "updateTextProbe", fq, {}, tx, FALSE, store, pr[p])
                     EXCEPT !.pth = textPath(fq)]))

NextRenewText ==
    \/ CallUpdateLean(1, D1, {})
    \/ CallRenewLean(1, D1)
    \/ CallCreateTextLean(2, Acme1, V1)
    \/ CallUpdateTextLean(2, Acme1, V2)
    \/ Update_Probe(1)
    \/ setTokenOrigin_Get(1)
    \/ setTokenOrigin_Set(1)
    \/ set_Dir(1)
    \/ set_lookupHosts(1)
    \/ refreshExpiration_Dir(1)
    \/ refreshExpiration_lookupHosts(1)
    \/ refreshExpiration_List(1)
    \/ refreshExpiration_AcmeGet(1)
    \/ refreshExpiration_AcmeSet(1)
    \/ CreateText_Probe(2)
    \/ UpdateText_Probe(2)
    \/ setText_Set(2)

SpecRenewText == Init /\ [][NextRenewText]_vars

\* C19: once the UpdateText of client 2 has returned success and the call of
\* client 1 (an Update or a Renew) has returned too, the entry stores the
\* value the UpdateText wrote.
C19_RenewKeepsText ==
    LET u == pr[2]
        k == KeyOf(textPath(u.fqdn))
    IN Done(u, "UpdateText") /\ u.err = "ok" /\ pr[1].pc = "done" =>
         k \in DOMAIN store /\ store[k].value = formatTextValue(u.text)

====
